---- MODULE Spec2Model ----
(***************************************************************************)
(* Bill ingestion (src/api/streamlit_app.py), bill analysis                *)
(* (src/oai_client.py, src/rl/medical_rl.py) and the Bills Manager page    *)
(* (src/api/app.py) over one shared "bills" collection and one file tree.  *)
(***************************************************************************)
EXTENDS Integers, Sequences, FiniteSets, TLC

\* ------------------------------------------------------------------ bounds
MaxUploads == 2      \* save_uploaded_bill calls per behaviour of SpecIngest
MaxLen == 1          \* longest uploaded byte sequence
MaxBills == 2        \* uploads and Bills Manager submissions per behaviour of Spec
MaxSummaries == 5    \* summarize_bill_with_vision calls per behaviour of SpecSummarize
MaxQueries == 2      \* Research clicks per behaviour of SpecQuery
MaxEpisodes == 2     \* wandb.config.episodes, scaled down
MaxAnalyses == 2     \* analyses started per behaviour of Spec

\* wandb.config.reward_threshold, in thousandths
RewardThreshold == 800

\* ------------------------------------------------------------- value sets
Bytes == {0}
Contents == UNION {[1..n -> Bytes] : n \in 0..MaxLen}
Uploaders == {"u1", "u2"}
\* the two callers of analyze_medical_bill: a direct caller, and
\* MedicalBillRLAgent.analyze_bill_with_confidence
Analyzers == {"direct", "agent"}
BillsDir == "./bills"
Dirs == {BillsDir, "/tmp/bills"}
QueryTexts == {"queryA", "queryB"}
ResultTexts == {"resultA", "resultB"}
SummaryTexts == {"summaryA", "summaryB"}
AnalysisTexts == {"analysisA", "analysisB"}

\* Python's None / a present value
None == <<>>
Some(x) == <<x>>

\* bills_dir / f"{bill_uuid}.pdf": a directory and the base name of the file
FilePath(dir, id) == <<dir, id>>
\* f"./bills/{bill_uuid}.pdf"
StoredPath(id) == <<BillsDir, id>>

VARIABLES
    openai_client,   \* streamlit_app.openai_client is configured (not None)
    files,           \* the file system: existing path -> bytes
    bills,           \* the bills collection, in insertion order
    uuids,           \* number of identifiers uuid4 has handed out
    clock,           \* datetime.now()
    submits,         \* Bills Manager submissions so far
    up,              \* per uploader: the frame of its save_uploaded_bill call
    uploadLog,       \* the calls of save_uploaded_bill that have returned
    an,              \* per analyzer: the frame of its analyze_medical_bill call
    analyses,        \* analyses started so far
    sm,              \* the frame of a summarize_bill_with_vision call
    qp,              \* the Research Query page of one session
    queries,         \* the queries collection, in insertion order
    rl               \* the frame of run_rl_training and its agent

vars == <<openai_client, files, bills, uuids, clock, submits, up, uploadLog, an, analyses,
          sm, qp, queries, rl>>

\* Path.exists, open(path, "wb") + write, Path.unlink
Exists(path) == path \in DOMAIN files
WriteBytes(path, bytes) ==
    [q \in DOMAIN files \cup {path} |-> IF q = path THEN bytes ELSE files[q]]
Unlink(path) == [q \in DOMAIN files \ {path} |-> files[q]]

IdleUp == [pc |-> "idle", id |-> 0, dir |-> BillsDir, content |-> <<>>,
           summary |-> None, status |-> "pending", processed_at |-> None,
           summ |-> None, fail |-> "none"]

IdleAn == [pc |-> "idle", bill_id |-> 0, analysis |-> None, fail |-> "none"]

\* no exception
NoExc == [type |-> "none", msg |-> "", cause |-> "none"]

IdleSm == [pc |-> "idle", requests |-> 0, text |-> None, exc |-> NoExc,
           calls |-> 0, chats |-> 0]

IdleQp == [pc |-> "idle", query |-> "", result |-> "", requests |-> 0,
           shown |-> "none", clicks |-> 0]

IdleRl == [pc |-> "idle", episode |-> 0, episode_rewards |-> <<>>,
           bill_id |-> 0, mark |-> 0, reward |-> 0]

Init ==
    /\ openai_client \in BOOLEAN
    /\ files = <<>>
    /\ bills = <<>>
    /\ uuids = 0
    /\ clock = 1
    /\ submits = 0
    /\ up = [u \in Uploaders |-> IdleUp]
    /\ uploadLog = <<>>
    /\ an = [a \in Analyzers |-> IdleAn]
    /\ analyses = 0
    /\ sm = IdleSm
    /\ qp = IdleQp
    /\ queries = <<>>
    /\ rl = IdleRl

\* an identifier generator that hands out the previous identifier again
uuid4_Repeats == IF uuids = 0 THEN 1 ELSE uuids

\* uuid.uuid4(): an identifier no earlier call has been given
uuid4 == uuids + 1

\* ------------------------------------------------- save_uploaded_bill
\* bill_uuid = uuid.uuid4(); file_path = bills_dir / f"{bill_uuid}.pdf"
UploadStart(u, content, dir) ==
    /\ up[u].pc \in {"idle", "raised"}
    /\ uuids' = uuids + 1
    /\ up' = [up EXCEPT ![u] = [IdleUp EXCEPT !.pc = "write", !.id = uuid4,
                                              !.dir = dir, !.content = content]]
    /\ UNCHANGED <<sm, qp, queries, rl, openai_client, files, bills, clock, submits, uploadLog, an, analyses>>

\* a write that loses the last byte
WriteFileOk_Truncated(u) ==
    /\ up[u].pc = "write"
    /\ files' = WriteBytes(FilePath(up[u].dir, up[u].id),
                           SubSeq(up[u].content, 1, Len(up[u].content) - 1))
    /\ up' = [up EXCEPT ![u].pc = "summarize", ![u].summary = None,
                        ![u].status = "pending", ![u].processed_at = None]
    /\ UNCHANGED <<sm, qp, queries, rl, openai_client, bills, uuids, clock, submits, uploadLog, an, analyses>>

\* with open(file_path, "wb") as f: f.write(file_content)
\* "wb" creates the file or truncates an existing one; the whole buffer is
\* written, or an exception is raised.
WriteFileOk(u) ==
    /\ up[u].pc = "write"
    /\ files' = WriteBytes(FilePath(up[u].dir, up[u].id), up[u].content)
    /\ up' = [up EXCEPT ![u].pc = "summarize", ![u].summary = None,
                        ![u].status = "pending", ![u].processed_at = None]
    /\ UNCHANGED <<sm, qp, queries, rl, openai_client, bills, uuids, clock, submits, uploadLog, an, analyses>>

\* a failing open that is swallowed, the call carrying on
OpenFails_Continues(u) ==
    /\ up[u].pc = "write"
    /\ up' = [up EXCEPT ![u].pc = "summarize", ![u].fail = "open"]
    /\ UNCHANGED <<sm, qp, queries, rl, openai_client, files, bills, uuids, clock, submits, uploadLog, an, analyses>>

\* open() raises: no file is created
OpenFails(u) ==
    /\ up[u].pc = "write"
    /\ up' = [up EXCEPT ![u].pc = "cleanup", ![u].fail = "open"]
    /\ UNCHANGED <<sm, qp, queries, rl, openai_client, files, bills, uuids, clock, submits, uploadLog, an, analyses>>

\* open() succeeded (the file exists, truncated) and the write raises with
\* the first n bytes on disk
WriteFails(u, n) ==
    /\ up[u].pc = "write"
    /\ n \in 0..Len(up[u].content)
    /\ files' = WriteBytes(FilePath(up[u].dir, up[u].id), SubSeq(up[u].content, 1, n))
    /\ up' = [up EXCEPT ![u].pc = "cleanup", ![u].fail = "write"]
    /\ UNCHANGED <<sm, qp, queries, rl, openai_client, bills, uuids, clock, submits, uploadLog, an, analyses>>

\* summarize_bill_with_vision(file_path): the ways it can end
\*   "nocred"   openai_client is None
\*   "convfail" convert_from_path raises
\*   "nopages"  convert_from_path returns no image
\*   "apifail"  chat.completions.create raises
\*   "ok"       the completion text is returned
\* The frame's summ is None before the call, <<"ok", text>> when it returned
\* text and <<"failed">> when it raised.
SummarizeOutcomes(u) ==
    IF ~openai_client THEN {"nocred"}
    ELSE IF ~Exists(FilePath(up[u].dir, up[u].id)) THEN {"convfail"}
    ELSE {"convfail", "nopages", "apifail", "ok"}

\* a successful summarization that records no processed-at timestamp
SummarizeOk_NoTimestamp(u, text) ==
    /\ up[u].pc = "summarize"
    /\ "ok" \in SummarizeOutcomes(u)
    /\ up' = [up EXCEPT ![u].pc = "insert", ![u].summary = Some(text),
                        ![u].status = "processed", ![u].summ = <<"ok", text>>]
    /\ clock' = clock + 1
    /\ UNCHANGED <<sm, qp, queries, rl, openai_client, files, bills, uuids, submits, uploadLog, an, analyses>>

\* summary = summarize_bill_with_vision(file_path); status = "processed";
\* processed_at = datetime.now()
SummarizeOk(u, text) ==
    /\ up[u].pc = "summarize"
    /\ "ok" \in SummarizeOutcomes(u)
    /\ up' = [up EXCEPT ![u].pc = "insert", ![u].summary = Some(text),
                        ![u].status = "processed", ![u].processed_at = Some(clock),
                        ![u].summ = <<"ok", text>>]
    /\ clock' = clock + 1
    /\ UNCHANGED <<sm, qp, queries, rl, openai_client, files, bills, uuids, submits, uploadLog, an, analyses>>

\* a summarization failure that is not caught by the inner try
SummarizeFails_Propagates(u, why) ==
    /\ up[u].pc = "summarize"
    /\ why \in SummarizeOutcomes(u) \ {"ok"}
    /\ up' = [up EXCEPT ![u].pc = "cleanup", ![u].summ = <<"failed">>]
    /\ UNCHANGED <<sm, qp, queries, rl, openai_client, files, bills, uuids, clock, submits, uploadLog, an, analyses>>

\* except Exception as e: print(...); status = "pending"
SummarizeFails(u, why) ==
    /\ up[u].pc = "summarize"
    /\ why \in SummarizeOutcomes(u) \ {"ok"}
    /\ up' = [up EXCEPT ![u].pc = "insert", ![u].status = "pending", ![u].summ = <<"failed">>]
    /\ UNCHANGED <<sm, qp, queries, rl, openai_client, files, bills, uuids, clock, submits, uploadLog, an, analyses>>

\* a document whose path is the path the file was written to
Document_WrittenPath(u) ==
    [id |-> Some(up[u].id), path |-> Some(FilePath(up[u].dir, up[u].id)),
     status |-> up[u].status, summary |-> up[u].summary,
     uploaded_at |-> clock, processed_at |-> up[u].processed_at,
     analysis |-> None, filename |-> None]

\* document = {...}
Document(u) ==
    [id |-> Some(up[u].id), path |-> Some(StoredPath(up[u].id)),
     status |-> up[u].status, summary |-> up[u].summary,
     uploaded_at |-> clock, processed_at |-> up[u].processed_at,
     analysis |-> None, filename |-> None]

\* return {"id": str(bill_uuid), "status": status, "summary": summary}
UploadResult(u) ==
    [id |-> up[u].id, status |-> up[u].status, summary |-> up[u].summary]

\* a call that has returned, as its caller sees it: the arguments, the
\* returned dictionary and whether the summarizer had failed
Returned(u) ==
    [dir |-> up[u].dir, content |-> up[u].content, result |-> UploadResult(u),
     summ |-> up[u].summ]

\* an insert after which the file is removed although the call returns
InsertOk_Unlinks(u) ==
    /\ up[u].pc = "insert"
    /\ bills' = Append(bills, Document(u))
    /\ clock' = clock + 1
    /\ files' = Unlink(FilePath(up[u].dir, up[u].id))
    /\ uploadLog' = Append(uploadLog, Returned(u))
    /\ up' = [up EXCEPT ![u] = IdleUp]
    /\ UNCHANGED <<sm, qp, queries, rl, openai_client, uuids, submits, an, analyses>>

\* bills_collection.insert_one(document) succeeds; the call returns
InsertOk(u) ==
    /\ up[u].pc = "insert"
    /\ bills' = Append(bills, Document(u))
    /\ clock' = clock + 1
    /\ uploadLog' = Append(uploadLog, Returned(u))
    /\ up' = [up EXCEPT ![u] = IdleUp]
    /\ UNCHANGED <<sm, qp, queries, rl, openai_client, files, uuids, submits, an, analyses>>

\* bills_collection.insert_one(document) raises
InsertFails(u) ==
    /\ up[u].pc = "insert"
    /\ clock' = clock + 1
    /\ up' = [up EXCEPT ![u].pc = "cleanup", ![u].fail = "insert"]
    /\ UNCHANGED <<sm, qp, queries, rl, openai_client, files, bills, uuids, submits, uploadLog, an, analyses>>

\* a handler that re-raises without removing the file
Cleanup_NoUnlink(u) ==
    /\ up[u].pc = "cleanup"
    /\ up' = [up EXCEPT ![u] = [IdleUp EXCEPT !.pc = "raised", !.id = up[u].id,
                                              !.dir = up[u].dir, !.fail = up[u].fail]]
    /\ UNCHANGED <<sm, qp, queries, rl, openai_client, files, bills, uuids, clock, submits, uploadLog, an, analyses>>

\* a handler that removes the file only after a failed insert
Cleanup_InsertOnly(u) ==
    /\ up[u].pc = "cleanup"
    /\ files' = IF up[u].fail = "insert" /\ Exists(FilePath(up[u].dir, up[u].id))
                THEN Unlink(FilePath(up[u].dir, up[u].id)) ELSE files
    /\ up' = [up EXCEPT ![u] = [IdleUp EXCEPT !.pc = "raised", !.id = up[u].id,
                                              !.dir = up[u].dir, !.fail = up[u].fail]]
    /\ UNCHANGED <<sm, qp, queries, rl, openai_client, bills, uuids, clock, submits, uploadLog, an, analyses>>

\* except Exception as e: if file_path.exists(): file_path.unlink();
\* raise Exception(f"Failed to save bill: ...")
Cleanup(u) ==
    /\ up[u].pc = "cleanup"
    /\ files' = IF Exists(FilePath(up[u].dir, up[u].id))
                THEN Unlink(FilePath(up[u].dir, up[u].id)) ELSE files
    /\ up' = [up EXCEPT ![u] = [IdleUp EXCEPT !.pc = "raised", !.id = up[u].id,
                                              !.dir = up[u].dir, !.fail = up[u].fail]]
    /\ UNCHANGED <<sm, qp, queries, rl, openai_client, bills, uuids, clock, submits, uploadLog, an, analyses>>

\* ------------------------------------------- Bills Manager, "Submit Bill"
\* bill_doc = {"filename", "size", "status": "pending", "uploaded_at"}: a
\* document of the same collection that has no "id" and no "path"
BillDoc ==
    [id |-> None, path |-> None, status |-> "pending", summary |-> None,
     uploaded_at |-> clock, processed_at |-> None, analysis |-> None,
     filename |-> Some("bill.pdf")]

\* db.bills.insert_one(bill_doc); a failure is shown with st.error
SubmitBill(ok) ==
    /\ submits' = submits + 1
    /\ clock' = clock + 1
    /\ bills' = IF ok THEN Append(bills, BillDoc) ELSE bills
    /\ UNCHANGED <<sm, qp, queries, rl, openai_client, files, uuids, up, uploadLog, an, analyses>>

\* ------------------------------------------------ analyze_medical_bill
\* bills_collection.find_one({"id": bill_id}): the position of the first
\* matching document, 0 for None
Matching(bill_id) == {i \in 1..Len(bills) : bills[i].id = Some(bill_id)}
find_one(bill_id) ==
    IF Matching(bill_id) = {} THEN 0
    ELSE CHOOSE i \in Matching(bill_id) : \A j \in Matching(bill_id) : i <= j

\* an update that replaces the document by its id, status and analysis
update_one_Replacing(bill_id, status, analysis) ==
    IF find_one(bill_id) = 0 THEN bills
    ELSE [bills EXCEPT ![find_one(bill_id)] =
            [id |-> Some(bill_id), path |-> bills[find_one(bill_id)].path,
             status |-> status, summary |-> None,
             uploaded_at |-> bills[find_one(bill_id)].uploaded_at,
             processed_at |-> None, analysis |-> analysis, filename |-> None]]

\* an update that stores the changed document as a new one
update_one_Inserting(bill_id, status, analysis) ==
    IF find_one(bill_id) = 0 THEN bills
    ELSE Append(bills, [bills[find_one(bill_id)] EXCEPT !.status = status,
                                                        !.analysis = analysis])

\* bills_collection.update_one({"id": bill_id}, {"$set": {...}})
update_one(bill_id, status, analysis) ==
    IF find_one(bill_id) = 0 THEN bills
    ELSE [bills EXCEPT ![find_one(bill_id)].status = status,
                       ![find_one(bill_id)].analysis = analysis]

\* An exception leaves analyze_medical_bill.  It reaches a direct caller;
\* the except clause of MedicalBillRLAgent.analyze_bill_with_confidence turns
\* it into the result {"error": str(e), "confidence": 0.0}.
AnalyzeRaise(a, why) ==
    [IdleAn EXCEPT !.pc = IF a = "agent" THEN "error" ELSE "raised", !.fail = why]

AnDone == {"idle", "returned", "raised", "error"}

\* a start that does not check that the file exists
AnalyzeGet_NoFileCheck(a, bill_id, extracted) ==
    /\ an[a].pc \in AnDone
    /\ analyses' = analyses + 1
    /\ LET i == find_one(bill_id) IN
       an' = [an EXCEPT ![a] =
                IF i = 0 THEN AnalyzeRaise(a, "notfound")
                ELSE IF ~extracted THEN AnalyzeRaise(a, "extract")
                ELSE [IdleAn EXCEPT !.pc = "llm", !.bill_id = bill_id]]
    /\ UNCHANGED <<sm, qp, queries, rl, openai_client, files, bills, uuids, clock, submits, up, uploadLog>>

\* bill_doc = get_bill_by_id(bill_id); the two checks; extract_text_from_pdf
AnalyzeGet(a, bill_id, extracted) ==
    /\ an[a].pc \in AnDone
    /\ analyses' = analyses + 1
    /\ LET i == find_one(bill_id) IN
       an' = [an EXCEPT ![a] =
                IF i = 0 THEN AnalyzeRaise(a, "notfound")
                ELSE IF ~Exists(bills[i].path[1]) THEN AnalyzeRaise(a, "nofile")
                ELSE IF ~extracted THEN AnalyzeRaise(a, "extract")
                ELSE [IdleAn EXCEPT !.pc = "llm", !.bill_id = bill_id]]
    /\ UNCHANGED <<sm, qp, queries, rl, openai_client, files, bills, uuids, clock, submits, up, uploadLog>>

\* response = client.chat.completions.create(...);
\* analysis_result = response.choices[0].message.content
AnalyzeLLMOk(a, text) ==
    /\ an[a].pc = "llm"
    /\ an' = [an EXCEPT ![a].pc = "update", ![a].analysis = Some(text)]
    /\ UNCHANGED <<sm, qp, queries, rl, openai_client, files, bills, uuids, clock, submits, up, uploadLog, analyses>>

\* a failing LLM call that marks the record "pending" before raising
AnalyzeLLMFails_Downgrades(a) ==
    /\ an[a].pc = "llm"
    /\ bills' = update_one(an[a].bill_id, "pending", None)
    /\ an' = [an EXCEPT ![a] = AnalyzeRaise(a, "llm")]
    /\ UNCHANGED <<sm, qp, queries, rl, openai_client, files, uuids, clock, submits, up, uploadLog, analyses>>

\* client.chat.completions.create raises
AnalyzeLLMFails(a) ==
    /\ an[a].pc = "llm"
    /\ an' = [an EXCEPT ![a] = AnalyzeRaise(a, "llm")]
    /\ UNCHANGED <<sm, qp, queries, rl, openai_client, files, bills, uuids, clock, submits, up, uploadLog, analyses>>

\* return {"bill_id": bill_id, "status": "analyzed", "analysis": analysis_result}
AnalyzeResult(a) ==
    [bill_id |-> an[a].bill_id, status |-> "analyzed", analysis |-> an[a].analysis[1]]

\* an update that leaves alone a record that is already analyzed
AnalyzeUpdate_FirstWins(a) ==
    /\ an[a].pc = "update"
    /\ bills' = IF \E i \in Matching(an[a].bill_id) : bills[i].status = "analyzed"
                THEN bills
                ELSE update_one(an[a].bill_id, "analyzed", an[a].analysis)
    /\ an' = [an EXCEPT ![a].pc = "returned"]
    /\ UNCHANGED <<sm, qp, queries, rl, openai_client, files, uuids, clock, submits, up, uploadLog, analyses>>

\* an update that puts the record back to "pending"
AnalyzeUpdate_Requeue(a) ==
    /\ an[a].pc = "update"
    /\ bills' = update_one(an[a].bill_id, "pending", an[a].analysis)
    /\ an' = [an EXCEPT ![a].pc = "returned"]
    /\ UNCHANGED <<sm, qp, queries, rl, openai_client, files, uuids, clock, submits, up, uploadLog, analyses>>

\* bills_collection.update_one(...); return {"bill_id", "status": "analyzed",
\* "analysis", "bill_text"}
AnalyzeUpdate(a) ==
    /\ an[a].pc = "update"
    /\ bills' = update_one(an[a].bill_id, "analyzed", an[a].analysis)
    /\ an' = [an EXCEPT ![a].pc = "returned"]
    /\ UNCHANGED <<sm, qp, queries, rl, openai_client, files, uuids, clock, submits, up, uploadLog, analyses>>

\* bills_collection.update_one raises
AnalyzeUpdateFails(a) ==
    /\ an[a].pc = "update"
    /\ an' = [an EXCEPT ![a] = AnalyzeRaise(a, "update")]
    /\ UNCHANGED <<sm, qp, queries, rl, openai_client, files, bills, uuids, clock, submits, up, uploadLog, analyses>>


\* ------------------------------------------ summarize_bill_with_vision
\* raise Exception("OpenAI API key not configured")
NotConfigured ==
    [type |-> "Exception", msg |-> "OpenAI API key not configured", cause |-> "none"]

\* except Exception as e: raise Exception(f"Failed to summarize bill: {str(e)}")
\* e is named by its type
FailedToSummarize(e) ==
    [type |-> "Exception", msg |-> "Failed to summarize bill", cause |-> e]

SmDone == {"idle", "returned", "raised"}

\* the call starts: if not openai_client: raise ...
SmStart ==
    /\ sm.pc \in SmDone
    /\ sm' = IF ~openai_client
             THEN [IdleSm EXCEPT !.pc = "raised", !.exc = NotConfigured,
                                 !.calls = sm.calls + 1, !.chats = sm.chats]
             ELSE [IdleSm EXCEPT !.pc = "convert",
                                 !.calls = sm.calls + 1, !.chats = sm.chats]
    /\ UNCHANGED <<openai_client, files, bills, uuids, clock, submits, up, uploadLog,
                   an, analyses, qp, queries, rl>>

\* images = convert_from_path(...) returns the first page; it is encoded
SmConvertOk ==
    /\ sm.pc = "convert"
    /\ sm' = [sm EXCEPT !.pc = "request"]
    /\ UNCHANGED <<openai_client, files, bills, uuids, clock, submits, up, uploadLog,
                   an, analyses, qp, queries, rl>>

\* convert_from_path raises (e = "PDFPageCountError"), or returns no image
\* and the function raises Exception("Failed to convert PDF to images")
\* itself (e = "Exception"); the except clause wraps either
SmConvertFails(e) ==
    /\ sm.pc = "convert"
    /\ sm' = [sm EXCEPT !.pc = "raised", !.exc = FailedToSummarize(e)]
    /\ UNCHANGED <<openai_client, files, bills, uuids, clock, submits, up, uploadLog,
                   an, analyses, qp, queries, rl>>

\* openai_client.chat.completions.create(...) returns;
\* return response.choices[0].message.content
SmRequestOk(text) ==
    /\ sm.pc = "request"
    /\ sm' = [sm EXCEPT !.pc = "returned", !.text = Some(text),
                        !.requests = sm.requests + 1, !.chats = sm.chats + 1]
    /\ UNCHANGED <<openai_client, files, bills, uuids, clock, submits, up, uploadLog,
                   an, analyses, qp, queries, rl>>

\* a failing chat request that is issued again
SmRequestFails_Retries(e) ==
    /\ sm.pc = "request"
    /\ sm' = [sm EXCEPT !.requests = sm.requests + 1, !.chats = sm.chats + 1]
    /\ UNCHANGED <<openai_client, files, bills, uuids, clock, submits, up, uploadLog,
                   an, analyses, qp, queries, rl>>

\* openai_client.chat.completions.create(...) raises; the except clause wraps
SmRequestFails(e) ==
    /\ sm.pc = "request"
    /\ sm' = [sm EXCEPT !.pc = "raised", !.exc = FailedToSummarize(e),
                        !.requests = sm.requests + 1, !.chats = sm.chats + 1]
    /\ UNCHANGED <<openai_client, files, bills, uuids, clock, submits, up, uploadLog,
                   an, analyses, qp, queries, rl>>

\* ------------------------------------------------- Research Query page
\* query_doc = {"query", "result", "timestamp", "model": "gpt-4o"}
QueryDoc ==
    [query |-> qp.query, result |-> qp.result, timestamp |-> clock, model |-> "gpt-4o"]

\* one run of the page with the Research button: without a client only the
\* warning is shown; an empty text area gives "Please enter a research
\* question"; otherwise the chat call is made
Research(user_query) ==
    /\ qp.pc = "idle"
    /\ qp' = IF ~openai_client
             THEN [IdleQp EXCEPT !.shown = "nokey", !.clicks = qp.clicks + 1]
             ELSE IF user_query = ""
             THEN [IdleQp EXCEPT !.shown = "enter", !.clicks = qp.clicks + 1]
             ELSE [IdleQp EXCEPT !.pc = "chat", !.query = user_query,
                                 !.clicks = qp.clicks + 1]
    /\ UNCHANGED <<openai_client, files, bills, uuids, clock, submits, up, uploadLog,
                   an, analyses, sm, queries, rl>>

\* response = openai_client.chat.completions.create(...);
\* result = response.choices[0].message.content
QpChatOk(text) ==
    /\ qp.pc = "chat"
    /\ qp' = [qp EXCEPT !.pc = "insert", !.result = text, !.requests = qp.requests + 1]
    /\ UNCHANGED <<openai_client, files, bills, uuids, clock, submits, up, uploadLog,
                   an, analyses, sm, queries, rl>>

\* a failing chat call whose error text is saved as the result
QpChatFails_Saves ==
    /\ qp.pc = "chat"
    /\ qp' = [qp EXCEPT !.pc = "insert", !.result = "error", !.requests = qp.requests + 1]
    /\ UNCHANGED <<openai_client, files, bills, uuids, clock, submits, up, uploadLog,
                   an, analyses, sm, queries, rl>>

\* the chat call raises: except Exception as e: st.error(...)
QpChatFails ==
    /\ qp.pc = "chat"
    /\ qp' = [qp EXCEPT !.pc = "idle", !.shown = "error", !.requests = qp.requests + 1]
    /\ UNCHANGED <<openai_client, files, bills, uuids, clock, submits, up, uploadLog,
                   an, analyses, sm, queries, rl>>

\* db.queries.insert_one(query_doc); st.success(...)
QpInsertOk ==
    /\ qp.pc = "insert"
    /\ queries' = Append(queries, QueryDoc)
    /\ clock' = clock + 1
    /\ qp' = [qp EXCEPT !.pc = "idle", !.shown = "saved"]
    /\ UNCHANGED <<openai_client, files, bills, uuids, submits, up, uploadLog,
                   an, analyses, sm, rl>>

\* db.queries.insert_one raises: except Exception as e: st.error(...)
QpInsertFails ==
    /\ qp.pc = "insert"
    /\ clock' = clock + 1
    /\ qp' = [qp EXCEPT !.pc = "idle", !.shown = "error"]
    /\ UNCHANGED <<openai_client, files, bills, uuids, submits, up, uploadLog,
                   an, analyses, sm, queries, rl>>

\* ---------------------------------------- MedicalBillRLAgent, run_rl_training
\* What the scoring reads off an analysis text: its number of words, how
\* many of the eight key elements it names, how many of the five feedback
\* words.  "analysisA" is a short text naming none, "analysisB" a long one
\* naming all.
Words(text) == IF text = "analysisA" THEN 20 ELSE 240
KeyElements(text) == IF text = "analysisA" THEN 0 ELSE 8
FeedbackWords(text) == IF text = "analysisA" THEN 0 ELSE 5

Min(x, y) == IF x <= y THEN x ELSE y

\* rewards and scores are in thousandths
\* confidence = min(1.0, len(analysis_text.split()) / 200)
Confidence(text) == Min(1000, (Words(text) * 1000) \div 200)

\* simulate_expert_feedback: helpful_score
Helpful(text) == Min(1000, 500 + 100 * FeedbackWords(text))

\* calculate_reward(analysis_result, simulated_feedback)
\* an error result has no "analysis": feedback is the baseline, reward -1.0
calculate_reward(frame) ==
    IF frame.pc = "error" THEN 0 - 1000
    ELSE LET text == frame.analysis[1]
             reward == (Confidence(text) * 6 + ((KeyElements(text) * 1000) \div 8) * 4) \div 10
         IN (reward * 7 + Helpful(text) * 3) \div 10

RECURSIVE Sum(_)
Sum(seq) == IF seq = <<>> THEN 0 ELSE Head(seq) + Sum(Tail(seq))

\* get_performance_metrics(): without rewards the dictionary has only
\* "avg_reward" and "total_episodes"
MetricsKeys ==
    IF rl.episode_rewards = <<>> THEN {"avg_reward", "total_episodes"}
    ELSE {"avg_reward", "total_episodes", "best_reward", "recent_avg"}

\* metrics["recent_avg"] > wandb.config.reward_threshold, for fewer than ten
\* rewards: the mean of all of them
RecentAvgAboveThreshold ==
    Sum(rl.episode_rewards) > RewardThreshold * Len(rl.episode_rewards)

\* get_pending_bills(): bills_collection.find({"status": "pending"})
get_pending_bills == {i \in 1..Len(bills) : bills[i].status = "pending"}

\* agent = MedicalBillRLAgent(client); the loop is entered
RLStart ==
    /\ rl.pc = "idle"
    /\ rl' = [IdleRl EXCEPT !.pc = "episode"]
    /\ UNCHANGED <<openai_client, files, bills, uuids, clock, submits, up, uploadLog,
                   an, analyses, sm, qp, queries>>

\* train_episode: if not pending_bills: return 0.0
RLNoPending ==
    /\ rl.pc = "episode"
    /\ get_pending_bills = {}
    /\ rl' = [rl EXCEPT !.pc = "metrics", !.reward = 0]
    /\ UNCHANGED <<openai_client, files, bills, uuids, clock, submits, up, uploadLog,
                   an, analyses, sm, qp, queries>>

\* train_episode: bill = random.choice(pending_bills); bill_id = bill["id"]
\* a document without "id" makes this a KeyError that nothing catches
RLSelect(i) ==
    /\ rl.pc = "episode"
    /\ i \in get_pending_bills
    /\ rl' = IF bills[i].id = None
             THEN [rl EXCEPT !.pc = "crashed"]
             ELSE [rl EXCEPT !.pc = "analyze", !.bill_id = bills[i].id[1],
                             !.mark = analyses]
    /\ UNCHANGED <<openai_client, files, bills, uuids, clock, submits, up, uploadLog,
                   an, analyses, sm, qp, queries>>

\* train_episode, after analyze_bill_with_confidence has returned: the
\* reward is computed, logged and appended to episode_rewards
RLRecord ==
    /\ rl.pc = "analyze"
    /\ analyses > rl.mark
    /\ an["agent"].pc \in {"returned", "error"}
    /\ rl' = [rl EXCEPT !.pc = "metrics",
                        !.reward = calculate_reward(an["agent"]),
                        !.episode_rewards = Append(@, calculate_reward(an["agent"]))]
    /\ UNCHANGED <<openai_client, files, bills, uuids, clock, submits, up, uploadLog,
                   an, analyses, sm, qp, queries>>

\* run_rl_training, after train_episode: metrics = get_performance_metrics();
\* wandb.log({... metrics["avg_reward"], metrics["recent_avg"]}); the early
\* stop; the next episode or the end of the loop
RLMetrics ==
    /\ rl.pc = "metrics"
    /\ rl' = IF "recent_avg" \notin MetricsKeys THEN [rl EXCEPT !.pc = "crashed"]
             ELSE IF RecentAvgAboveThreshold THEN [rl EXCEPT !.pc = "final"]
             ELSE IF rl.episode + 1 < MaxEpisodes
                  THEN [rl EXCEPT !.pc = "episode", !.episode = rl.episode + 1]
             ELSE [rl EXCEPT !.pc = "final"]
    /\ UNCHANGED <<openai_client, files, bills, uuids, clock, submits, up, uploadLog,
                   an, analyses, sm, qp, queries>>

\* final_metrics = get_performance_metrics(); the three prints; wandb.finish()
RLFinal ==
    /\ rl.pc = "final"
    /\ rl' = IF "best_reward" \notin MetricsKeys THEN [rl EXCEPT !.pc = "crashed"]
             ELSE [rl EXCEPT !.pc = "done"]
    /\ UNCHANGED <<openai_client, files, bills, uuids, clock, submits, up, uploadLog,
                   an, analyses, sm, qp, queries>>

\* ----------------------------------------------------------- properties
\* the record stored for an identifier
RecordsOf(id) == {i \in 1..Len(bills) : bills[i].id = Some(id)}
LogIndex == 1..Len(uploadLog)

\* C1: every call of save_uploaded_bill(content, dir) that has returned,
\* also one given the empty byte sequence, has left the file {id}.pdf in
\* dir holding exactly the bytes it was given, and a record with that id is
\* in the collection.
C1_FileHoldsInput ==
    \A k \in LogIndex :
        LET e == uploadLog[k] IN
        /\ <<e.dir, e.result.id>> \in DOMAIN files
        /\ files[<<e.dir, e.result.id>>] = e.content
        /\ \E i \in 1..Len(bills) : bills[i].id = <<e.result.id>>

\* an upload of the empty byte sequence and one of a non-empty sequence
\* have both returned
C1_Witness ==
    /\ \E k \in LogIndex : uploadLog[k].content = <<>>
    /\ \E k \in LogIndex : Len(uploadLog[k].content) > 0

\* C2: a failure of the summarization sub-step, whatever its cause, does not
\* abort the upload.  The call goes on to the insert with status "pending",
\* no summary, no processed-at timestamp and the file in place; from there
\* only a failing insert can make it raise; and once it has returned, the
\* result has status "pending" and no summary, the file is kept and the
\* inserted record has status "pending", no summary and no processed-at.
C2_SummaryFailureIsolated ==
    /\ \A u \in Uploaders :
        up[u].summ = <<"failed">> =>
            /\ up[u].pc \in {"insert", "cleanup"}
            /\ up[u].pc = "cleanup" => up[u].fail = "insert"
            /\ up[u].pc = "insert" =>
                /\ up[u].status = "pending"
                /\ up[u].summary = <<>>
                /\ up[u].processed_at = <<>>
                /\ <<up[u].dir, up[u].id>> \in DOMAIN files
    /\ \A k \in LogIndex :
        LET e == uploadLog[k] IN
        e.summ = <<"failed">> =>
            /\ e.result.status = "pending"
            /\ e.result.summary = <<>>
            /\ <<e.dir, e.result.id>> \in DOMAIN files
            /\ RecordsOf(e.result.id) # {}
            /\ \A i \in RecordsOf(e.result.id) :
                /\ bills[i].status = "pending"
                /\ bills[i].summary = <<>>
                /\ bills[i].processed_at = <<>>

\* an upload whose summarization failed for want of a credential has returned
C2_Witness ==
    /\ ~openai_client
    /\ \E k \in LogIndex : uploadLog[k].summ = <<"failed">>

\* C3: when the insert fails after the file was written, the call ends by
\* raising: the file of that attempt is gone, no record carries its
\* identifier and no result was returned for it.
C3_InsertFailureCompensated ==
    \A u \in Uploaders :
        (up[u].pc = "raised" /\ up[u].fail = "insert") =>
            /\ <<up[u].dir, up[u].id>> \notin DOMAIN files
            /\ RecordsOf(up[u].id) = {}
            /\ \A k \in LogIndex : uploadLog[k].result.id # up[u].id

\* an upload has raised because its insert failed
C3_Witness == \E u \in Uploaders : up[u].pc = "raised" /\ up[u].fail = "insert"

\* C4: the k-th returned upload and the k-th inserted record agree: same id,
\* same status, path "./bills/{id}.pdf"; and the file written for that
\* upload has the record's id as its base name.
C4_RecordMatchesResult ==
    /\ Len(bills) = Len(uploadLog)
    /\ \A k \in LogIndex :
        LET e == uploadLog[k] IN
        /\ bills[k].id = <<e.result.id>>
        /\ bills[k].status = e.result.status
        /\ bills[k].path = << <<"./bills", e.result.id>> >>
        /\ <<e.dir, bills[k].id[1]>> \in DOMAIN files

\* an upload into a directory other than ./bills has returned, and so has a
\* processed one
C4_Witness ==
    /\ \E k \in LogIndex : uploadLog[k].dir # "./bills"
    /\ \E k \in LogIndex : uploadLog[k].result.status = "processed"

\* C5: the returned uploads have pairwise distinct identifiers, each one's
\* file still exists with the bytes of that upload, and there have been as
\* many inserts as returned uploads.
C5_DistinctUploads ==
    /\ \A j, k \in LogIndex : j # k => uploadLog[j].result.id # uploadLog[k].result.id
    /\ \A k \in LogIndex :
        /\ <<uploadLog[k].dir, uploadLog[k].result.id>> \in DOMAIN files
        /\ files[<<uploadLog[k].dir, uploadLog[k].result.id>>] = uploadLog[k].content
    /\ Cardinality({<<uploadLog[k].dir, uploadLog[k].result.id>> : k \in LogIndex}) = Len(uploadLog)
    /\ Len(bills) = Len(uploadLog)

\* two uploads of the same bytes into the same directory have returned
C5_Witness ==
    \E j, k \in LogIndex :
        /\ j < k
        /\ uploadLog[j].content = uploadLog[k].content
        /\ uploadLog[j].dir = uploadLog[k].dir

\* C6: when the summarizer returned a text, the result and the record have
\* status "processed", both carry that text as the summary, and the record
\* has a processed-at timestamp; and every record the pipeline inserted has
\* a processed-at timestamp exactly when its status is "processed".
C6_ProcessedOnSummary ==
    /\ \A k \in LogIndex :
        LET e == uploadLog[k] IN
        (e.summ # <<>> /\ e.summ[1] = "ok") =>
            /\ e.result.status = "processed"
            /\ e.result.summary = <<e.summ[2]>>
            /\ \A i \in RecordsOf(e.result.id) :
                /\ bills[i].status = "processed"
                /\ bills[i].summary = <<e.summ[2]>>
                /\ bills[i].processed_at # <<>>
    /\ \A i \in 1..Len(bills) :
        bills[i].id # <<>> => (bills[i].processed_at # <<>> <=> bills[i].status = "processed")

\* a summarized upload and an unsummarized one have both returned
C6_Witness ==
    /\ \E k \in LogIndex : uploadLog[k].summ = <<"ok", "summaryB">>
    /\ \E k \in LogIndex : uploadLog[k].result.status = "pending"

\* C7: when writing the file fails (open or write), the call ends by
\* raising: summarization is never attempted, no record and no result carry
\* its identifier, and after the failure the call's only step is the raise
\* (the write is not tried again).
C7_WriteFailureState ==
    \A u \in Uploaders :
        up[u].fail \in {"open", "write"} =>
            /\ up[u].pc \in {"cleanup", "raised"}
            /\ up[u].summ = <<>>
            /\ RecordsOf(up[u].id) = {}
            /\ \A k \in LogIndex : uploadLog[k].result.id # up[u].id
C7_WriteFailureStep ==
    \A u \in Uploaders :
        (up[u].pc = "cleanup" /\ up'[u] # up[u]) =>
            (up'[u].pc = "raised" /\ up'[u].id = up[u].id /\ up'[u].fail = up[u].fail)
C7_WriteFailureAborts == []C7_WriteFailureState /\ [][C7_WriteFailureStep]_vars

\* one upload has raised on a failing open, another on a failing write
C7_Witness ==
    \E u, v \in Uploaders :
        /\ up[u].pc = "raised" /\ up[u].fail = "open"
        /\ up[v].pc = "raised" /\ up[v].fail = "write"

\* C8 as stated: when the LLM call of analyze_medical_bill fails, the caller
\* is not given an exception.
C8_AsStated ==
    \A a \in Analyzers : an[a].fail = "llm" => an[a].pc # "raised"

\* C8, amended: when the LLM call of analyze_medical_bill fails, no record
\* changes, and the exception leaves analyze_medical_bill: a direct caller
\* gets it raised, and only analyze_bill_with_confidence turns it into an
\* error result.
C8_LLMFailureState ==
    /\ an["direct"].fail = "llm" => an["direct"].pc = "raised"
    /\ an["agent"].fail = "llm" => an["agent"].pc = "error"
C8_LLMFailureStep ==
    \A a \in Analyzers :
        (an[a].pc = "llm" /\ an'[a].fail = "llm") => bills' = bills
C8_LLMFailurePropagates == []C8_LLMFailureState /\ [][C8_LLMFailureStep]_vars

\* the LLM call has failed for a direct caller and for the agent, with a
\* record stored
C8_Witness ==
    /\ an["direct"].pc = "raised" /\ an["direct"].fail = "llm"
    /\ an["agent"].pc = "error" /\ an["agent"].fail = "llm"
    /\ \E i \in 1..Len(bills) : bills[i].status = "processed"

\* C9: no step moves the status of a stored record backwards along
\* pending -> processed -> analyzed.
Rank(status) ==
    CASE status = "pending" -> 0
      [] status = "processed" -> 1
      [] status = "analyzed" -> 2
C9_Step ==
    \A i \in 1..Len(bills) :
        i <= Len(bills') => Rank(bills'[i].status) >= Rank(bills[i].status)
C9_StatusAdvances == [][C9_Step]_vars

\* a processed record has been analyzed, and so has a pending one
C9_Witness ==
    /\ \E i \in 1..Len(bills) : bills[i].status = "analyzed" /\ bills[i].summary # <<>>
    /\ \E i \in 1..Len(bills) : bills[i].status = "analyzed" /\ bills[i].summary = <<>>

\* C10: no step removes a record or changes its identifier; a step adds at
\* most one record, and a record it adds with an identifier is added by the
\* upload that generated that identifier, which no stored record carries yet.
C10_Step ==
    /\ Len(bills') >= Len(bills)
    /\ \A i \in 1..Len(bills) : bills'[i].id = bills[i].id
    /\ Len(bills') > Len(bills) =>
        /\ Len(bills') = Len(bills) + 1
        /\ LET new == bills'[Len(bills')] IN
           new.id # <<>> =>
               /\ \A i \in 1..Len(bills) : bills[i].id # new.id
               /\ \E u \in Uploaders : up[u].pc = "insert" /\ <<up[u].id>> = new.id
C10_RecordsCreatedOnce == [][C10_Step]_vars

\* two uploaded records are stored and one of them has been analyzed
C10_Witness ==
    /\ Len(bills) = 2
    /\ bills[1].id # <<>> /\ bills[2].id # <<>>
    /\ \E i \in 1..2 : bills[i].status = "analyzed"

\* C11 as stated: a step removes a file only when it is the handler of an
\* upload whose insert has failed.
C11_AsStatedStep ==
    \A p \in DOMAIN files :
        p \notin DOMAIN files' =>
            \E u \in Uploaders :
                /\ up[u].pc = "cleanup" /\ up[u].fail = "insert"
                /\ p = <<up[u].dir, up[u].id>>
C11_AsStated == [][C11_AsStatedStep]_vars

\* C11, amended: a step removes a file only when it is the handler of an
\* upload that is raising because its insert failed or because its write
\* failed after the file had been created, and the file is the one of that
\* upload; no returning upload removes a file.
C11_Step ==
    \A p \in DOMAIN files :
        p \notin DOMAIN files' =>
            \E u \in Uploaders :
                /\ up[u].pc = "cleanup" /\ up[u].fail \in {"insert", "write"}
                /\ up'[u].pc = "raised"
                /\ p = <<up[u].dir, up[u].id>>
                /\ \A k \in LogIndex : p # <<uploadLog[k].dir, uploadLog[k].result.id>>
                /\ uploadLog' = uploadLog
C11_FileRemovedOnlyOnRaise == [][C11_Step]_vars

\* the partial file of a failed write has been removed, and so has the file
\* of an upload whose insert failed, while a returned upload keeps its file
C11_Witness ==
    /\ \E u \in Uploaders :
        up[u].pc = "raised" /\ up[u].fail = "write" /\ <<up[u].dir, up[u].id>> \notin DOMAIN files
    /\ \E u \in Uploaders :
        up[u].pc = "raised" /\ up[u].fail = "insert" /\ <<up[u].dir, up[u].id>> \notin DOMAIN files

\* C14: two analyses of the same identifier are not serialised.  Whenever an
\* analysis applies its update, whatever the other one has done in between,
\* the record becomes "analyzed" with the analysis text of that update, so
\* the update applied last is the one that stays.
C14_Step ==
    \A a \in Analyzers :
        (an[a].pc = "update" /\ an'[a].pc = "returned") =>
            \E i \in 1..Len(bills) :
                /\ bills[i].id = <<an[a].bill_id>>
                /\ bills'[i].status = "analyzed"
                /\ bills'[i].analysis = an[a].analysis
C14_LastWriteWins == [][C14_Step]_vars

\* both analyses have read the same record and hold the result of their own
\* LLM call, two different texts, and neither has written yet
C14_Witness ==
    /\ an["direct"].pc = "update" /\ an["agent"].pc = "update"
    /\ an["direct"].bill_id = an["agent"].bill_id
    /\ an["direct"].analysis # an["agent"].analysis
    /\ \E i \in 1..Len(bills) :
        bills[i].id = <<an["direct"].bill_id>> /\ bills[i].status # "analyzed"

\* C15: the step on which analyze_medical_bill(id) succeeds changes nothing
\* but the status and analysis of the record with that id: its other
\* fields, the other records and the files stay as they were, and the
\* returned status and analysis are the stored ones.
C15_Step ==
    \A a \in Analyzers :
        (an[a].pc = "update" /\ an'[a].pc = "returned") =>
            /\ files' = files
            /\ Len(bills') = Len(bills)
            /\ \A i \in 1..Len(bills) :
                /\ bills'[i].id = bills[i].id
                /\ bills'[i].path = bills[i].path
                /\ bills'[i].summary = bills[i].summary
                /\ bills'[i].uploaded_at = bills[i].uploaded_at
                /\ bills'[i].processed_at = bills[i].processed_at
                /\ bills'[i].filename = bills[i].filename
                /\ bills[i].id # <<an[a].bill_id>> => bills'[i] = bills[i]
                /\ bills[i].id = <<an[a].bill_id>> =>
                    /\ bills'[i].status = AnalyzeResult(a).status
                    /\ bills'[i].analysis = <<AnalyzeResult(a).analysis>>
C15_AnalysisFrame == [][C15_Step]_vars

\* an analysis has returned for a summarized record while another record is
\* stored
C15_Witness ==
    \E a \in Analyzers :
        /\ an[a].pc = "returned"
        /\ Len(bills) = 2
        /\ \E i, j \in 1..2 :
            /\ i # j
            /\ bills[i].id = <<an[a].bill_id>>
            /\ bills[i].status = "analyzed" /\ bills[i].summary # <<>>
            /\ bills[j].status # "analyzed"

\* C16: an analysis ends with "not found" or "file not found" only on its
\* first step, before any LLM call or update, and that step changes neither
\* the records nor the files; and an analysis gets to its LLM call only for
\* an identifier that has a record whose stored path holds a file.
C16_Step ==
    \A a \in Analyzers :
        /\ (an'[a] # an[a] /\ an'[a].fail \in {"notfound", "nofile"}) =>
            /\ an[a].pc \in {"idle", "returned", "raised", "error"}
            /\ an'[a].pc \in {"raised", "error"}
            /\ bills' = bills
            /\ files' = files
        /\ (an'[a] # an[a] /\ an'[a].pc = "llm") =>
            \E i \in 1..Len(bills) :
                /\ bills[i].id = <<an'[a].bill_id>>
                /\ bills[i].path[1] \in DOMAIN files
C16_FailsBeforeEffects == [][C16_Step]_vars

\* one analysis has failed for want of a record, the other for want of the
\* file of a stored record
C16_Witness ==
    /\ an["direct"].pc = "raised" /\ an["direct"].fail = "notfound"
    /\ an["agent"].pc = "error" /\ an["agent"].fail = "nofile"

\* C17: in every state of concurrent uploads the file of each inserted
\* record is in the directory that upload was given; and when no upload is
\* in progress, every file present is the file of an inserted record.
C17_FileBeforeRecord ==
    /\ Len(bills) = Len(uploadLog)
    /\ \A k \in 1..Len(bills) :
        <<uploadLog[k].dir, bills[k].id[1]>> \in DOMAIN files
    /\ (\A u \in Uploaders : up[u].pc \in {"idle", "raised"}) =>
        \A p \in DOMAIN files :
            \E k \in 1..Len(bills) : p = <<uploadLog[k].dir, bills[k].id[1]>>

\* one upload has returned and another has raised after its write failed,
\* and none is in progress
C17_Witness ==
    /\ Len(bills) = 1
    /\ \E u \in Uploaders : up[u].pc = "raised" /\ up[u].fail = "write"
    /\ \A u \in Uploaders : up[u].pc \in {"idle", "raised"}

\* C12: a call of summarize_bill_with_vision issues at most one chat request;
\* it ends either returning the completion text of that one request or
\* raising, and whatever failed, what it raises is a plain Exception; with
\* no credential configured no chat request is ever issued.
C12_OneRequestOneFailureKind ==
    /\ sm.requests <= 1
    /\ sm.chats <= sm.calls
    /\ sm.pc = "returned" =>
        /\ sm.requests = 1
        /\ sm.text # <<>> /\ sm.text[1] \in SummaryTexts
        /\ sm.exc.type = "none"
    /\ sm.pc = "raised" =>
        /\ sm.exc.type = "Exception"
        /\ sm.text = <<>>
    /\ ~openai_client =>
        /\ sm.chats = 0
        /\ sm.pc \in {"idle", "raised"}
        /\ sm.pc = "raised" => sm.exc.cause = "none"

\* a second call has raised after its one chat request failed, the first
\* one having issued a request too
C12_Witness ==
    /\ sm.pc = "raised" /\ sm.exc.cause = "APIError"
    /\ sm.requests = 1 /\ sm.calls = 2 /\ sm.chats = 2

\* C13: the queries collection only grows, by one record at a time, and only
\* on the insert that follows the one successful chat call of a research
\* query: the record holds that query, its result, the time and the model.
\* A failed call, an empty query and a missing credential append nothing,
\* and no step changes or removes a stored record.
C13_State ==
    /\ qp.requests <= 1
    /\ ~openai_client => queries = <<>>
    /\ \A i \in 1..Len(queries) :
        /\ queries[i].query \in QueryTexts
        /\ queries[i].result \in ResultTexts
        /\ queries[i].model = "gpt-4o"
C13_Step ==
    /\ Len(queries') >= Len(queries)
    /\ \A i \in 1..Len(queries) : queries'[i] = queries[i]
    /\ queries' # queries =>
        /\ qp.pc = "insert" /\ qp.requests = 1
        /\ Len(queries') = Len(queries) + 1
        /\ queries'[Len(queries')] =
            [query |-> qp.query, result |-> qp.result, timestamp |-> clock,
             model |-> "gpt-4o"]
    /\ qp'.shown \in {"error", "enter", "nokey"} => queries' = queries
C13_AppendOnlyLog == []C13_State /\ [][C13_Step]_vars

\* one query has been saved and a later one, whose chat call failed, has
\* left the collection as it was
C13_Witness ==
    /\ Len(queries) = 1
    /\ qp.clicks = 2 /\ qp.requests = 1 /\ qp.pc = "idle" /\ qp.shown = "error"

\* C18 as stated: run_rl_training never ends in an uncaught exception,
\* whatever the bills collection holds; it runs at most the configured
\* number of episodes, and an episode records a reward only for a bill it
\* selected.
C18_AsStated ==
    /\ rl.pc # "crashed"
    /\ rl.episode < MaxEpisodes
    /\ Len(rl.episode_rewards) <= rl.episode + 1

\* --------------------------------------------------------- specifications
\* the ingestion pipeline alone, under concurrent uploads
NextIngest ==
    \/ uuids < MaxUploads /\ \E u \in Uploaders, c \in Contents, d \in Dirs : UploadStart(u, c, d)
    \/ \E u \in Uploaders : WriteFileOk(u)
    \/ \E u \in Uploaders : OpenFails(u)
    \/ \E u \in Uploaders, n \in 0..MaxLen : WriteFails(u, n)
    \/ \E u \in Uploaders, t \in SummaryTexts : SummarizeOk(u, t)
    \/ \E u \in Uploaders, w \in {"nocred", "convfail", "nopages", "apifail"} : SummarizeFails(u, w)
    \/ \E u \in Uploaders : InsertOk(u)
    \/ \E u \in Uploaders : InsertFails(u)
    \/ \E u \in Uploaders : Cleanup(u)

SpecIngest == Init /\ [][NextIngest]_vars

\* calls of summarize_bill_with_vision, with and without a credential
NextSummarize ==
    \/ sm.calls < MaxSummaries /\ SmStart
    \/ SmConvertOk
    \/ \E e \in {"PDFPageCountError", "Exception"} : SmConvertFails(e)
    \/ \E t \in SummaryTexts : SmRequestOk(t)
    \/ \E e \in {"APIError", "IndexError"} : SmRequestFails(e)

SpecSummarize == Init /\ [][NextSummarize]_vars

\* the pages of the research app: research queries and bill submissions
NextQuery ==
    \/ qp.clicks < MaxQueries /\ \E q \in QueryTexts \cup {""} : Research(q)
    \/ \E t \in ResultTexts : QpChatOk(t)
    \/ QpChatFails
    \/ QpInsertOk
    \/ QpInsertFails
    \/ submits < MaxBills /\ \E ok \in BOOLEAN : SubmitBill(ok)

SpecQuery == Init /\ [][NextQuery]_vars

\* run_rl_training over a collection filled by uploads and Bills Manager
\* submissions; the agent's analysis is the one call of the current episode
NextRL ==
    \/ uuids + submits < MaxBills /\ \E d \in Dirs : UploadStart("u1", <<>>, d)
    \/ WriteFileOk("u1")
    \/ OpenFails("u1")
    \/ WriteFails("u1", 0)
    \/ SummarizeOk("u1", "summaryA")
    \/ \E w \in {"nocred", "convfail", "nopages", "apifail"} : SummarizeFails("u1", w)
    \/ InsertOk("u1")
    \/ InsertFails("u1")
    \/ Cleanup("u1")
    \/ uuids + submits < MaxBills /\ \E ok \in BOOLEAN : SubmitBill(ok)
    \/ RLStart
    \/ RLNoPending
    \/ \E i \in 1..MaxBills : RLSelect(i)
    \/ rl.pc = "analyze" /\ analyses = rl.mark
          /\ \E x \in BOOLEAN : AnalyzeGet("agent", rl.bill_id, x)
    \/ \E t \in AnalysisTexts : AnalyzeLLMOk("agent", t)
    \/ AnalyzeLLMFails("agent")
    \/ AnalyzeUpdate("agent")
    \/ AnalyzeUpdateFails("agent")
    \/ RLRecord
    \/ RLMetrics
    \/ RLFinal

SpecRL == Init /\ [][NextRL]_vars

\* sequential uploads, Bills Manager submissions and two concurrent
\* analyses, interleaved
Next ==
    \/ uuids + submits < MaxBills /\ \E d \in Dirs : UploadStart("u1", <<>>, d)
    \/ WriteFileOk("u1")
    \/ OpenFails("u1")
    \/ WriteFails("u1", 0)
    \/ SummarizeOk("u1", "summaryA")
    \/ \E w \in {"nocred", "convfail", "nopages", "apifail"} : SummarizeFails("u1", w)
    \/ InsertOk("u1")
    \/ InsertFails("u1")
    \/ Cleanup("u1")
    \/ uuids + submits < MaxBills /\ \E ok \in BOOLEAN : SubmitBill(ok)
    \/ analyses < MaxAnalyses /\ \E a \in Analyzers, b \in 1..MaxBills,
            x \in BOOLEAN : AnalyzeGet(a, b, x)
    \/ \E a \in Analyzers, t \in AnalysisTexts : AnalyzeLLMOk(a, t)
    \/ \E a \in Analyzers : AnalyzeLLMFails(a)
    \/ \E a \in Analyzers : AnalyzeUpdate(a)
    \/ \E a \in Analyzers : AnalyzeUpdateFails(a)

Spec == Init /\ [][Next]_vars
====
